---- MODULE Spec2Model ----
(***************************************************************************)
(* Model of youtube_metrics_collector.py: the URL-to-identifier extractor, *)
(* the batched metrics fetcher and the join/sort that builds the report.   *)
(*                                                                         *)
(* Python strings are sequences of one-character strings, so that          *)
(* substring search, stripping, splitting and lexical comparison are       *)
(* computed and not assumed.  Python's None is the value None below.       *)
(***************************************************************************)
EXTENDS Integers, Sequences, FiniteSets, TLC

\* ------------------------------------------------------------------------
\* Bounds of the model
\* ------------------------------------------------------------------------
\* number of full batches an input may hold, and rows beyond the last full one
MaxFull == 1
MaxTail == 2

\* the service takes up to 50 identifiers per request
batch_size == 50

\* ------------------------------------------------------------------------
\* Strings
\* ------------------------------------------------------------------------
None == <<"None">>
Truthy(x) == x # None /\ x # <<>>

S_shorts == <<"/","s","h","o","r","t","s","/">>
S_youtu_be == <<"y","o","u","t","u",".","b","e","/">>
S_watch == <<"y","o","u","t","u","b","e",".","c","o","m","/","w","a","t","c","h">>
S_https == <<"h","t","t","p","s",":","/","/">>
S_www == <<"w","w","w",".","y","o","u","t","u","b","e",".","c","o","m">>
S_example == <<"e","x","a","m","p","l","e",".","c","o","m">>
S_yb == <<"y","o","u","t","u",".","b","e">>
NA == <<"N","/","A">>
Zero == <<"0">>

Min(a, b) == IF a <= b THEN a ELSE b

Range(s) == {s[k] : k \in DOMAIN s}

\* s[a:b] with 1-based inclusive bounds, empty when b < a
Slice(s, a, b) == IF b < a THEN <<>> ELSE SubSeq(s, a, b)

\* s[:i - 1] and s[i + 1:] for the position i of a separator, the whole
\* string and the empty string when there is none (i = 0)
Before(s, i) == IF i = 0 THEN s ELSE Slice(s, 1, i - 1)
After(s, i) == IF i = 0 THEN <<>> ELSE Slice(s, i + 1, Len(s))

StartsAt(sub, s, i) ==
    /\ i >= 1
    /\ i + Len(sub) - 1 <= Len(s)
    /\ SubSeq(s, i, i + Len(sub) - 1) = sub

\* `sub in s`
Contains(sub, s) == \E i \in 1..Len(s) : StartsAt(sub, s, i)

Least(S) == CHOOSE x \in S : \A y \in S : x <= y
Greatest(S) == CHOOSE x \in S : \A y \in S : x >= y

LeastOr0(S) == IF S = {} THEN 0 ELSE Least(S)
GreatestOr0(S) == IF S = {} THEN 0 ELSE Greatest(S)

\* s.find(c): index of the first c at or after position from, 0 when absent
FindChar(s, cs, from) == LeastOr0({i \in from..Len(s) : s[i] \in cs})

RFindChar(s, c) == GreatestOr0({i \in 1..Len(s) : s[i] = c})

\* s.strip(chars)
Between(s, first, last) == IF first = 0 THEN <<>> ELSE Slice(s, first, last)

StripChars(s, cs) ==
    Between(s, LeastOr0({i \in 1..Len(s) : s[i] \notin cs}),
               GreatestOr0({i \in 1..Len(s) : s[i] \notin cs}))

Whitespace == {" ", "\t", "\n", "\r"}

\* s.split(c)
RECURSIVE Split(_, _)
Split(s, c) ==
    LET i == FindChar(s, {c}, 1)
    IN  IF i = 0 THEN <<s>>
        ELSE <<Slice(s, 1, i - 1)>> \o Split(Slice(s, i + 1, Len(s)), c)

\* ------------------------------------------------------------------------
\* extract_video_id
\* ------------------------------------------------------------------------
Lower == {"a","b","c","d","e","f","g","h","i","j","k","l","m",
          "n","o","p","q","r","s","t","u","v","w","x","y","z"}
Upper == {"A","B","C","D","E","F","G","H","I","J","K","L","M",
          "N","O","P","Q","R","S","T","U","V","W","X","Y","Z"}
Digits == {"0","1","2","3","4","5","6","7","8","9"}

\* the character class [a-zA-Z0-9_-]
IdChars == Lower \cup Upper \cup Digits \cup {"_", "-"}

\* the run of class characters that starts at position from
IdRun(url, from) ==
    Before(Slice(url, from, Len(url)),
           LeastOr0({j \in 1..(Len(url) - from + 1) : url[from + j - 1] \notin IdChars}))

ShortsGroup(url, at) == IF at = 0 THEN None ELSE IdRun(url, at + Len(S_shorts))

\* re.search(r'/shorts/([a-zA-Z0-9_-]+)', url): group 1 of the leftmost
\* match, the longest run of class characters; None when nothing matches
ShortsMatch(url) ==
    ShortsGroup(url, LeastOr0({i \in 1..Len(url) :
                                  /\ StartsAt(S_shorts, url, i)
                                  /\ i + Len(S_shorts) <= Len(url)
                                  /\ url[i + Len(S_shorts)] \in IdChars}))

SchemeChars == Lower \cup Upper \cup Digits \cup {"+", "-", "."}

\* urlsplit: a scheme is a letter and scheme characters up to the first ':'
HasSchemeAt(u, colon) ==
    /\ colon > 1
    /\ u[1] \in Lower \cup Upper
    /\ \A k \in 1..(colon - 1) : u[k] \in SchemeChars

DropSchemeAt(u, colon) == IF HasSchemeAt(u, colon) THEN After(u, colon) ELSE u

DropScheme(u) == DropSchemeAt(u, FindChar(u, {":"}, 1))

\* urlsplit: after '//' the netloc runs up to the first '/', '?' or '#'
NetlocTo(rest, delim) == Slice(rest, 3, IF delim = 0 THEN Len(rest) ELSE delim - 1)

Netloc(rest) ==
    IF StartsAt(<<"/", "/">>, rest, 1)
    THEN NetlocTo(rest, FindChar(rest, {"/", "?", "#"}, 3))
    ELSE <<>>

FromDelim(rest, delim) == IF delim = 0 THEN <<>> ELSE Slice(rest, delim, Len(rest))

AfterNetloc(rest) ==
    IF StartsAt(<<"/", "/">>, rest, 1)
    THEN FromDelim(rest, FindChar(rest, {"/", "?", "#"}, 3))
    ELSE rest

\* urlsplit, urlparse: the fragment after '#', the query after '?' and the
\* parameters after a ';' of the last path segment are split off
NoFragment(rest) == Before(rest, FindChar(rest, {"#"}, 1))
PathOf(rest) == Before(rest, FindChar(rest, {"?"}, 1))
QueryOf(rest) == After(rest, FindChar(rest, {"?"}, 1))
NoParams(path) == Before(path, FindChar(path, {";"}, RFindChar(path, "/") + 1))

\* urllib.parse.urlparse, as far as netloc, path and query
UrlNetloc(url) == Netloc(DropScheme(url))
UrlPath(url) == NoParams(PathOf(NoFragment(AfterNetloc(DropScheme(url)))))
UrlQuery(url) == QueryOf(NoFragment(AfterNetloc(DropScheme(url))))

\* unquote(s.replace('+', ' ')); the URLs of the model hold no '%' escapes
Unquote(s) == [k \in DOMAIN s |-> IF s[k] = "+" THEN " " ELSE s[k]]

\* a field name=value of a query whose name is v and whose value is not blank
IsVField(f, eq) ==
    /\ eq > 0
    /\ Unquote(Slice(f, 1, eq - 1)) = <<"v">>
    /\ eq < Len(f)

FieldValue(f, eq) == Unquote(Slice(f, eq + 1, Len(f)))

FirstVField(fields, good) ==
    IF good = {} THEN None
    ELSE FieldValue(fields[Least(good)], FindChar(fields[Least(good)], {"="}, 1))

VFields(fields) ==
    FirstVField(fields, {k \in DOMAIN fields :
                            IsVField(fields[k], FindChar(fields[k], {"="}, 1))})

\* parse_qs(query).get('v', [None])[0]: fields are split on '&', a field
\* without '=' or with a blank value is dropped, the first remaining value
\* named v is returned
QueryV(query) == VFields(Split(query, "&"))

NoneIfEmpty(video_id) == IF video_id # <<>> THEN video_id ELSE None

YoutuBeRule(url) == NoneIfEmpty(StripChars(UrlPath(url), {"/"}))

\* the rules after the /shorts/ rule
LaterRules(url) ==
    IF Contains(S_youtu_be, url) THEN YoutuBeRule(url)
    ELSE IF Contains(S_watch, url) THEN QueryV(UrlQuery(url))
    ELSE None

FirstOf(shorts_match, url) ==
    IF shorts_match # None THEN shorts_match ELSE LaterRules(url)

extract_video_id(url) == FirstOf(ShortsMatch(url), url)

\* ------------------------------------------------------------------------
\* Dictionaries (insertion-ordered, as Python's dict)
\* ------------------------------------------------------------------------
EmptyDict == [keys |-> <<>>, val |-> <<>>]

HasKey(d, k) == k \in Range(d.keys)

\* the loop `for j: d[ks[j]] = vs[j]`: new keys are appended in the order
\* of their first assignment, each key holds the value assigned to it last
DictSetAll(d, ks, vs) ==
    LET idx   == [j \in DOMAIN ks |-> j]
        first == SelectSeq(idx, LAMBDA j : /\ ~HasKey(d, ks[j])
                                           /\ \A h \in 1..(j - 1) : ks[h] # ks[j])
        last(k) == CHOOSE j \in DOMAIN ks :
                      ks[j] = k /\ \A h \in DOMAIN ks : ks[h] = k => h <= j
    IN  [keys |-> d.keys \o [p \in DOMAIN first |-> ks[first[p]]],
         val  |-> [k \in Range(d.keys) \cup Range(ks) |->
                      IF k \in Range(ks) THEN vs[last(k)] ELSE d.val[k]]]

\* d.get(k, default) on a record or function
Get(d, k, default) == IF k \in DOMAIN d THEN d[k] ELSE default

\* a or b
Or(a, b) == IF Truthy(a) THEN a ELSE b

\* ------------------------------------------------------------------------
\* Inputs of a run
\* ------------------------------------------------------------------------
Digit(d) == <<"0","1","2","3","4","5","6","7","8","9">>[d + 1]
Digits3(n) == <<Digit((n \div 100) % 10), Digit((n \div 10) % 10), Digit(n % 10)>>

\* the credential file: absent, blank, or a key with surrounding whitespace
KeyFiles == {None, <<>>, <<" ", "\n">>, <<" ", "k", "e", "y", "\n">>}

\* the header of the input table, the kind of links its rows hold, whether
\* rows without a usable link surround them, and how identifiers repeat
\* over the rows: never, every second row, or one batch and a row apart
InputShapes ==
    { [nickCol |-> "Nickname", linkCol |-> "Link", links |-> "mixed",
       junk |-> FALSE, repeats |-> "never"],
      [nickCol |-> "nickname", linkCol |-> "url",  links |-> "mixed",
       junk |-> TRUE,  repeats |-> "near"],
      [nickCol |-> "Name",     linkCol |-> "URL",  links |-> "mixed",
       junk |-> TRUE,  repeats |-> "far"],
      [nickCol |-> "Nickname", linkCol |-> "link", links |-> "foreign",
       junk |-> FALSE, repeats |-> "never"] }

IdStr(n) == <<"v">> \o Digits3(n)

RowUrl(k, id, links) ==
    IF links = "foreign"
    THEN S_https \o S_example \o <<"/">> \o id
    ELSE IF k % 3 = 1
    THEN S_https \o S_www \o <<"/","w","a","t","c","h","?","v","=">> \o id
                 \o <<"&","t","=","5">>
    ELSE IF k % 3 = 2
    THEN <<" ">> \o S_https \o S_yb \o <<"/">> \o id \o <<" ">>
    ELSE S_https \o S_www \o S_shorts \o id \o <<"?","x","=","1">>

InputRow(k, n, shape) ==
    LET period == IF shape.repeats = "near" THEN 2
                  ELSE IF shape.repeats = "far" THEN batch_size + 1
                  ELSE n + 1
        id     == IdStr(((k - 1) % period) + 1)
        nick   == IF k % 5 = 0 THEN <<>> ELSE <<"n">> \o Digits3(k)
    IN  (shape.nickCol :> nick) @@ (shape.linkCol :> RowUrl(k, id, shape.links))

\* a row with a blank link and a row with a link that holds no identifier
JunkRows(shape) ==
    IF shape.junk
    THEN << (shape.nickCol :> <<"x">>) @@ (shape.linkCol :> <<>>),
            (shape.nickCol :> <<"y">>) @@ (shape.linkCol :> S_https \o S_example) >>
    ELSE <<>>

\* n rows with links, between the junk rows of the shape
InputCsv(n, shape) ==
    JunkRows(shape) \o [k \in 1..n |-> InputRow(k, n, shape)] \o JunkRows(shape)

RowCounts == {f * batch_size + t : f \in 0..MaxFull, t \in 0..MaxTail}

\* ------------------------------------------------------------------------
\* The remote service
\* ------------------------------------------------------------------------
\* what one request meets: an HTTP error, or a response that returns the
\* identifiers at the batch positions of the kept parities, each item with
\* all of its fields, some of them, or none
ServiceBehaviours ==
    { [kind |-> "error", status |-> <<"4","0","3">>, body |-> <<"q","u","o","t","a">>],
      [kind |-> "error", status |-> <<"5","0","0">>, body |-> <<>>],
      [kind |-> "ok", keep |-> {0, 1}, fields |-> "full"],
      [kind |-> "ok", keep |-> {},     fields |-> "full"],
      [kind |-> "ok", keep |-> {1},    fields |-> "none"],
      [kind |-> "ok", keep |-> {0},    fields |-> "some"] }

DateOf(j) == <<"2","0","2", Digit(2 + (j % 4)), "-", "0", Digit(1 + ((3 * j) % 9))>>

Item(id, j, fields) ==
    IF fields = "full"
    THEN [id |-> id,
          snippet |-> [title |-> <<"T">> \o id, channelTitle |-> <<"C","h">>,
                       publishedAt |-> DateOf(j)],
          statistics |-> [viewCount |-> Digits3(j), likeCount |-> <<"7">>,
                          commentCount |-> <<"1">>],
          contentDetails |-> [duration |-> <<"P","T","1","M">>]]
    ELSE IF fields = "some"
    THEN [id |-> id,
          snippet |-> [title |-> <<"T">> \o id, publishedAt |-> DateOf(j)],
          statistics |-> [viewCount |-> Digits3(j)],
          contentDetails |-> <<>>]
    ELSE [id |-> id, snippet |-> <<>>]

\* the first position of the batch at which the behaviour returns the
\* identifier, 0 when the response leaves it out
FirstKept(batch, b, id) ==
    LET at == {j \in DOMAIN batch : batch[j] = id /\ j % 2 \in b.keep}
    IN  IF at = {} THEN 0 ELSE CHOOSE j \in at : \A h \in at : j <= h

\* response.get('items', []): one item per identifier returned, in the
\* order of the identifier's first returned position in the batch
ResponseItems(batch, b) ==
    LET idx == [j \in DOMAIN batch |-> j]
        pos == SelectSeq(idx, LAMBDA j : FirstKept(batch, b, batch[j]) = j)
    IN  [p \in DOMAIN pos |-> Item(batch[pos[p]], pos[p], b.fields)]

\* ------------------------------------------------------------------------
\* get_video_metrics
\* ------------------------------------------------------------------------
NotFoundMsg == <<"V","i","d","e","o"," ","n","o","t"," ","f","o","u","n","d"," ","(","m","a","y"," ","b","e"," ","d","e","l","e","t","e","d"," ","o","r"," ","p","r","i","v","a","t","e",")">>
ApiErrorPrefix == <<"A","P","I"," ","E","r","r","o","r",":"," ">>

\* the message without the status
error_message_NoStatus(b) == ApiErrorPrefix \o b.body

error_message(b) == ApiErrorPrefix \o b.status \o <<" ", "-", " ">> \o b.body

Placeholder(err) ==
    [title |-> NA, channel_name |-> NA, upload_date |-> NA,
     view_count |-> Zero, like_count |-> Zero, comment_count |-> Zero,
     duration |-> NA, error |-> err]

\* the fields read without their defaults
OutcomeNoDefaults(item) ==
    LET snippet         == item.snippet
        statistics      == Get(item, "statistics", <<>>)
        content_details == Get(item, "contentDetails", <<>>)
    IN  [title         |-> Get(snippet, "title", None),
         channel_name  |-> Get(snippet, "channelTitle", None),
         upload_date   |-> Get(snippet, "publishedAt", NA),
         view_count    |-> Get(statistics, "viewCount", None),
         like_count    |-> Get(statistics, "likeCount", None),
         comment_count |-> Get(statistics, "commentCount", None),
         duration      |-> Get(content_details, "duration", None),
         error         |-> None]

Outcome(item) ==
    LET snippet         == item.snippet
        statistics      == Get(item, "statistics", <<>>)
        content_details == Get(item, "contentDetails", <<>>)
    IN  [title         |-> Get(snippet, "title", NA),
         channel_name  |-> Get(snippet, "channelTitle", NA),
         upload_date   |-> Get(snippet, "publishedAt", NA),
         view_count    |-> Get(statistics, "viewCount", Zero),
         like_count    |-> Get(statistics, "likeCount", Zero),
         comment_count |-> Get(statistics, "commentCount", Zero),
         duration      |-> Get(content_details, "duration", NA),
         error         |-> None]

\* the slice taken one identifier too long
BatchOverlap(ids, i) == Slice(ids, i + 1, Min(i + batch_size + 1, Len(ids)))

\* video_ids[i:i + batch_size], i counted from 0
Batch(ids, i) == Slice(ids, i + 1, Min(i + batch_size, Len(ids)))

\* for item in response.get('items', []): results[item['id']] = {...}
StoreItems(res, items) ==
    DictSetAll(res, [j \in DOMAIN items |-> items[j].id],
                    [j \in DOMAIN items |-> Outcome(items[j])])

\* the identifiers left out are not recorded at all
MarkMissingNone(res, batch, returned_ids) == res

\* the identifiers left out are recorded only when the mapping lacks them
MarkMissingIfAbsent(res, batch, returned_ids) ==
    LET missing == SelectSeq(batch, LAMBDA id : id \notin returned_ids /\ ~HasKey(res, id))
    IN  DictSetAll(res, missing, [j \in DOMAIN missing |-> Placeholder(NotFoundMsg)])

\* for video_id in batch: if video_id not in returned_ids: results[video_id] = {...}
MarkMissing(res, batch, returned_ids) ==
    LET missing == SelectSeq(batch, LAMBDA id : id \notin returned_ids)
    IN  DictSetAll(res, missing, [j \in DOMAIN missing |-> Placeholder(NotFoundMsg)])

\* the error recorded over what the mapping already holds
MarkFailedOverwrite(res, batch, msg) ==
    DictSetAll(res, batch, [j \in DOMAIN batch |-> Placeholder(msg)])

\* except HttpError: for video_id in batch: if video_id not in results: ...
MarkFailed(res, batch, msg) ==
    LET absent == SelectSeq(batch, LAMBDA id : ~HasKey(res, id))
    IN  DictSetAll(res, absent, [j \in DOMAIN absent |-> Placeholder(msg)])

\* one pass of the loop body over a batch
ProcessBatch(res, batch, b) ==
    IF b.kind = "ok"
    THEN LET items        == ResponseItems(batch, b)
             returned_ids == {items[j].id : j \in DOMAIN items}
         IN  MarkMissing(StoreItems(res, items), batch, returned_ids)
    ELSE MarkFailed(res, batch, error_message(b))

\* ------------------------------------------------------------------------
\* String order, as Python compares str: by code point, a prefix first
\* ------------------------------------------------------------------------
\* the ASCII characters of code points 32 to 90 in order: the blank, the
\* punctuation, the digits and the capitals, of which timestamps and the
\* placeholder are made
Ascii ==
    <<" ", "!", "\"", "#", "$", "%", "&", "'", "(", ")", "*", "+", ",", "-", ".", "/",
      "0", "1", "2", "3", "4", "5", "6", "7", "8", "9", ":", ";", "<", "=", ">", "?",
      "@", "A", "B", "C", "D", "E", "F", "G", "H", "I", "J", "K", "L", "M", "N", "O",
      "P", "Q", "R", "S", "T", "U", "V", "W", "X", "Y", "Z">>

CodePoint(c) == 31 + CHOOSE k \in DOMAIN Ascii : Ascii[k] = c

StrLess(a, b) ==
    LET diff == {k \in 1..Min(Len(a), Len(b)) : a[k] # b[k]}
    IN  IF diff = {} THEN Len(a) < Len(b)
        ELSE LET k == CHOOSE d \in diff : \A e \in diff : d <= e
             IN  CodePoint(a[k]) < CodePoint(b[k])

\* output_data.sort(key=lambda x: x['upload_date']): a stable sort, written
\* as the rows of the least key in their given order, then those of the
\* next key, and so on
RECURSIVE RowsByKey(_, _)
RowsByKey(rows, keys) ==
    IF keys = {} THEN <<>>
    ELSE LET least == CHOOSE k \in keys : \A o \in keys : ~StrLess(o, k)
         IN  SelectSeq(rows, LAMBDA r : r.upload_date = least)
                 \o RowsByKey(rows, keys \ {least})

\* the rows left in the order of the mapping
Unsorted(rows) == rows

SortByUploadDate(rows) ==
    RowsByKey(rows, {rows[a].upload_date : a \in DOMAIN rows})

\* ------------------------------------------------------------------------
\* State
\* ------------------------------------------------------------------------
VARIABLES
    pc,            \* position of main(), or of the extractor run
    apiKeyFile,    \* content of the API key file, None when it is missing
    inputCsv,      \* rows of the input table, as csv.DictReader yields them
    API_KEY,
    videos,
    video_ids,
    video_id_map,
    i,             \* loop variable of get_video_metrics
    results,       \* the mapping get_video_metrics accumulates
    requests,      \* the requests issued to the service, with what they met
    output_data,
    outputFile,    \* the output table: whether it was written, and its rows
    url,           \* argument of a lone extract_video_id call
    video_id       \* its result

vars == <<pc, apiKeyFile, inputCsv, API_KEY, videos, video_ids, video_id_map,
          i, results, requests, output_data, outputFile, url, video_id>>

Init ==
    /\ pc = "start"
    /\ apiKeyFile \in KeyFiles
    /\ inputCsv \in {InputCsv(n, shape) : n \in RowCounts, shape \in InputShapes}
    /\ API_KEY = None
    /\ videos = <<>>
    /\ video_ids = <<>>
    /\ video_id_map = <<>>
    /\ i = 0
    /\ results = EmptyDict
    /\ requests = <<>>
    /\ output_data = <<>>
    /\ outputFile = [written |-> FALSE, rows |-> <<>>]
    /\ url = None
    /\ video_id = None

\* ------------------------------------------------------------------------
\* main
\* ------------------------------------------------------------------------
\* the content taken without stripping it
read_api_key_NoStrip(file) ==
    IF file = None THEN None
    ELSE IF file = <<>> THEN None
    ELSE file

\* read_api_key: None stands for the exception main catches
read_api_key(file) ==
    IF file = None THEN None
    ELSE IF StripChars(file, Whitespace) = <<>> THEN None
    ELSE StripChars(file, Whitespace)

\* main, up to the API key: a missing or blank key file ends the run
LoadKey ==
    /\ pc = "start"
    /\ API_KEY' = read_api_key(apiKeyFile)
    /\ pc' = IF read_api_key(apiKeyFile) = None THEN "done" ELSE "read"
    /\ UNCHANGED <<apiKeyFile, inputCsv, videos, video_ids, video_id_map, i,
                   results, requests, output_data, outputFile, url, video_id>>

\* row.get('Nickname') or row.get('nickname')
RowNickname(row) == Or(Get(row, "Nickname", None), Get(row, "nickname", None))

\* row.get('Link') or row.get('link') or row.get('URL') or row.get('url')
RowLink(row) ==
    Or(Get(row, "Link", None),
    Or(Get(row, "link", None),
    Or(Get(row, "URL", None), Get(row, "url", None))))

read_input_csv(rows) ==
    LET linked == SelectSeq(rows, LAMBDA row : Truthy(RowLink(row)))
    IN  [k \in DOMAIN linked |->
            [nickname |-> Or(RowNickname(linked[k]), NA),
             url      |-> StripChars(RowLink(linked[k]), Whitespace)]]

ReadInput ==
    /\ pc = "read"
    /\ videos' = read_input_csv(inputCsv)
    /\ pc' = "extract"
    /\ UNCHANGED <<apiKeyFile, inputCsv, API_KEY, video_ids, video_id_map, i,
                   results, requests, output_data, outputFile, url, video_id>>

\* the loop of main over videos: the identifiers in row order and the
\* mapping from identifier to row
ExtractedIds(vs) ==
    SelectSeq([k \in DOMAIN vs |-> extract_video_id(vs[k].url)], Truthy)

\* video_id_map[video_id] = video: the last row of an identifier stays
IdMap(vs) ==
    LET ids == [k \in DOMAIN vs |-> extract_video_id(vs[k].url)]
    IN  [id \in {x \in Range(ids) : Truthy(x)} |->
            vs[CHOOSE k \in DOMAIN vs :
                  ids[k] = id /\ \A h \in DOMAIN vs : ids[h] = id => h <= k]]

ExtractIds ==
    /\ pc = "extract"
    /\ video_ids' = ExtractedIds(videos)
    /\ video_id_map' = IdMap(videos)
    /\ pc' = IF ExtractedIds(videos) = <<>> THEN "done" ELSE "fetch"
    /\ UNCHANGED <<apiKeyFile, inputCsv, API_KEY, videos, i, results, requests,
                   output_data, outputFile, url, video_id>>

\* one pass of the loop of get_video_metrics: the request for the next
\* batch and the handling of what comes back
FetchChunk ==
    /\ pc = "fetch"
    /\ i < Len(video_ids)
    /\ \E b \in ServiceBehaviours :
          /\ requests' = Append(requests, [ids |-> Batch(video_ids, i), met |-> b])
          /\ results' = ProcessBatch(results, Batch(video_ids, i), b)
    /\ i' = i + batch_size
    /\ UNCHANGED <<pc, apiKeyFile, inputCsv, API_KEY, videos, video_ids,
                   video_id_map, output_data, outputFile, url, video_id>>

Combined(metrics, idmap) ==
    [k \in DOMAIN metrics.keys |->
        LET id            == metrics.keys[k]
            video_metrics == metrics.val[id]
            original_data == Get(idmap, id, <<>>)
        IN  [nickname      |-> Get(original_data, "nickname", NA),
             title         |-> video_metrics.title,
             channel_name  |-> video_metrics.channel_name,
             upload_date   |-> video_metrics.upload_date,
             url           |-> Get(original_data, "url", NA),
             video_id      |-> id,
             view_count    |-> video_metrics.view_count,
             like_count    |-> video_metrics.like_count,
             comment_count |-> video_metrics.comment_count,
             duration      |-> video_metrics.duration,
             error         |-> Or(video_metrics.error, <<>>)]]

\* main after get_video_metrics returns: the rows are joined and sorted
BuildReport ==
    /\ pc = "fetch"
    /\ i >= Len(video_ids)
    /\ output_data' = SortByUploadDate(Combined(results, video_id_map))
    /\ pc' = "write"
    /\ UNCHANGED <<apiKeyFile, inputCsv, API_KEY, videos, video_ids,
                   video_id_map, i, results, requests, outputFile, url, video_id>>

\* write_output_csv: nothing is written when there are no rows
WriteOutput ==
    /\ pc = "write"
    /\ outputFile' = IF output_data = <<>> THEN outputFile
                   ELSE [written |-> TRUE, rows |-> output_data]
    /\ pc' = "done"
    /\ UNCHANGED <<apiKeyFile, inputCsv, API_KEY, videos, video_ids,
                   video_id_map, i, results, requests, output_data, url, video_id>>

Next ==
    \/ LoadKey
    \/ ReadInput
    \/ ExtractIds
    \/ FetchChunk
    \/ BuildReport
    \/ WriteOutput

Spec == Init /\ [][Next]_vars

\* ------------------------------------------------------------------------
\* extract_video_id on its own: one call on one URL
\* ------------------------------------------------------------------------
UrlSchemes == {<<>>, S_https}
UrlHosts == {S_yb, S_www, S_example}
UrlPaths == {<<>>, <<"/">>, <<"/","a","_","B","-","1">>, <<"/","a","_","B","-","1","/">>, <<"/","w","a","t","c","h">>, <<"/","s","h","o","r","t","s","/","a","_","B","-","1">>, <<"/","s","h","o","r","t","s","/">>, <<"/","s","h","o","r","t","s","/","a","_","B","-","1","/","x">>}
UrlQueries == {<<>>, <<"?","v","=","a","b","c">>, <<"?","v","=","x","-","y","_","z","&","t","=","5">>, <<"?","t","=","5","&","v","=">>, <<"?","v","=","a","b","c","&","u","=","y","o","u","t","u",".","b","e","/","x">>, <<"?","r","=","/","s","h","o","r","t","s","/","s","1">>, <<"?","t","=","5","#","v","=","n","o">>}

Urls == {s \o h \o p \o q : s \in UrlSchemes, h \in UrlHosts, p \in UrlPaths, q \in UrlQueries}

InitExtract ==
    /\ pc = "call"
    /\ url \in Urls
    /\ video_id = None
    /\ apiKeyFile = None
    /\ inputCsv = <<>>
    /\ API_KEY = None
    /\ videos = <<>>
    /\ video_ids = <<>>
    /\ video_id_map = <<>>
    /\ i = 0
    /\ results = EmptyDict
    /\ requests = <<>>
    /\ output_data = <<>>
    /\ outputFile = [written |-> FALSE, rows |-> <<>>]

Extract ==
    /\ pc = "call"
    /\ video_id' = extract_video_id(url)
    /\ pc' = "return"
    /\ UNCHANGED <<apiKeyFile, inputCsv, API_KEY, videos, video_ids, video_id_map,
                   i, results, requests, output_data, outputFile, url>>

NextExtract == Extract

SpecExtract == InitExtract /\ [][NextExtract]_vars

\* ------------------------------------------------------------------------
\* Properties
\* ------------------------------------------------------------------------
\* get_video_metrics has returned
Fetched ==
    \/ pc = "fetch" /\ i >= Len(video_ids)
    \/ pc = "write"
    \/ pc = "done" /\ video_ids # <<>>

\* the report has been built
Reported == pc = "write" \/ (pc = "done" /\ video_ids # <<>>)

Distinct(seq) == Cardinality(Range(seq)) = Len(seq)

Failed(q) == requests[q].met.kind = "error"
Succeeded(q) == requests[q].met.kind = "ok"

\* the requests whose batch holds the identifier
Asked(id) == {q \in DOMAIN requests : id \in Range(requests[q].ids)}

ReturnedBy(q, id) ==
    Succeeded(q) /\ FirstKept(requests[q].ids, requests[q].met, id) > 0

\* the outcome request q, taken alone, gives the identifier
ClassifiedBy(q, id) ==
    LET r == requests[q]
    IN  IF Failed(q) THEN Placeholder(error_message(r.met))
        ELSE IF ReturnedBy(q, id)
        THEN Outcome(Item(id, FirstKept(r.ids, r.met, id), r.met.fields))
        ELSE Placeholder(NotFoundMsg)

RECURSIVE Concat(_)
Concat(seqs) == IF seqs = <<>> THEN <<>> ELSE Head(seqs) \o Concat(Tail(seqs))

DataFields == {"title", "channel_name", "upload_date", "duration",
               "view_count", "like_count", "comment_count"}

\* C1: for pairwise-distinct identifiers and whatever each request met, the
\* mapping get_video_metrics returns has as many keys as identifiers were
\* passed in, and its key set is the set of those identifiers.
C1_KeysAreTheIdentifiers ==
    (Fetched /\ Distinct(video_ids)) =>
        /\ Len(results.keys) = Len(video_ids)
        /\ Range(results.keys) = Range(video_ids)
        /\ DOMAIN results.val = Range(video_ids)

C1_Witness ==
    /\ Fetched
    /\ Distinct(video_ids)
    /\ Len(video_ids) = batch_size + 2
    /\ Succeeded(1) /\ requests[1].met.keep = {1}
    /\ Failed(2)

\* C2: N identifiers are asked for in ceil(N/50) requests issued one after
\* another, no request holds more than 50 identifiers, and the batches in
\* the order of issue make up the input list, whether or not requests failed.
C2_BatchesPartitionTheInput ==
    /\ \A q \in DOMAIN requests : Len(requests[q].ids) <= batch_size
    /\ pc = "fetch" => i = batch_size * Len(requests)
    /\ Concat([q \in DOMAIN requests |-> requests[q].ids])
          = Slice(video_ids, 1, Min(batch_size * Len(requests), Len(video_ids)))
    /\ Fetched =>
          /\ Len(requests) = (Len(video_ids) + batch_size - 1) \div batch_size
          /\ Concat([q \in DOMAIN requests |-> requests[q].ids]) = video_ids

C2_Witness ==
    /\ Fetched
    /\ Len(video_ids) = batch_size + 1
    /\ Len(requests) = 2
    /\ Failed(1)
    /\ Len(requests[1].ids) = batch_size
    /\ Len(requests[2].ids) = 1

\* C3: every entry of the mapping either has no error and no data field
\* that is None, or has a non-empty error and every data field at its
\* placeholder: "N/A" for the text fields, "0" for the counts.
C3_OutcomeShape ==
    \A id \in Range(results.keys) :
        LET o == results.val[id]
        IN  IF o.error = None
            THEN \A f \in DataFields : o[f] # None
            ELSE /\ o.error # <<>>
                 /\ o = Placeholder(o.error)

C3_Witness ==
    /\ Fetched
    /\ \E id \in Range(results.keys) :
          /\ results.val[id].error = None
          /\ results.val[id].title # NA
          /\ results.val[id].duration = NA
          /\ results.val[id].like_count = Zero
    /\ \E id \in Range(results.keys) : results.val[id].error = NotFoundMsg
    /\ \E id \in Range(results.keys) :
          results.val[id].error \notin {None, NotFoundMsg}

\* C4 as claimed: when the request for a batch fails, every identifier of the
\* batch is in the final mapping with an error outcome whose message embeds
\* the status of that failure, identifiers of no failed batch are unaffected,
\* and the remaining batches are still requested.
C4_FailedBatchAllErrors ==
    Fetched =>
        /\ \A q \in DOMAIN requests : Failed(q) =>
              \A id \in Range(requests[q].ids) :
                  /\ HasKey(results, id)
                  /\ results.val[id] = Placeholder(error_message(requests[q].met))
                  /\ Contains(requests[q].met.status, results.val[id].error)
        /\ \A id \in Range(results.keys) :
              (\A p \in Asked(id) : Succeeded(p)) =>
                  results.val[id].error \in {None, NotFoundMsg}
        /\ batch_size * Len(requests) >= Len(video_ids)

\* C4, amended: when the request for a batch fails, every identifier of the
\* batch that no earlier batch held and no later successful batch holds is in
\* the mapping with an error outcome whose message embeds the status of that
\* failure (the same message for all of them), identifiers of no failed
\* batch are unaffected, and the remaining batches are still requested.
C4_FailedBatchNewIdsErrors ==
    /\ \A q \in DOMAIN requests : Failed(q) =>
          \A id \in Range(requests[q].ids) :
              (\A p \in Asked(id) : p >= q /\ (p > q => Failed(p))) =>
                  /\ HasKey(results, id)
                  /\ results.val[id] = Placeholder(error_message(requests[q].met))
                  /\ Contains(requests[q].met.status, results.val[id].error)
    /\ \A id \in Range(results.keys) :
          (\A p \in Asked(id) : Succeeded(p)) =>
              results.val[id].error \in {None, NotFoundMsg}
    /\ Fetched => batch_size * Len(requests) >= Len(video_ids)

C4_Witness ==
    /\ Fetched
    /\ Len(requests) = 2
    /\ Succeeded(1) /\ Failed(2)
    /\ \E id \in Range(requests[2].ids) :
          Asked(id) = {2} /\ Contains(<<"4","0","3">>, results.val[id].error)
    /\ \E id \in Range(requests[2].ids) :
          1 \in Asked(id) /\ results.val[id].error = None

\* C5 as claimed: an identifier that a successful response leaves out has a
\* row in the final report that carries the not-found error.
C5_NotFoundRowInReport ==
    Reported =>
        \A q \in DOMAIN requests : Succeeded(q) =>
            \A id \in Range(requests[q].ids) :
                ~ReturnedBy(q, id) =>
                    \E a \in DOMAIN output_data :
                        /\ output_data[a].video_id = id
                        /\ output_data[a].error = NotFoundMsg

\* C5, amended: an identifier that a successful response leaves out gets
\* the outcome with every field at its placeholder and the not-found error,
\* and the final report has a row for it that carries this error, unless a
\* later batch holding the same identifier succeeded and returned it.
C5_NotFoundUnlessReturnedLater ==
    \A q \in DOMAIN requests : Succeeded(q) =>
        \A id \in Range(requests[q].ids) :
            (~ReturnedBy(q, id) /\ \A p \in Asked(id) : p > q => ~ReturnedBy(p, id)) =>
                /\ HasKey(results, id)
                /\ results.val[id] = Placeholder(NotFoundMsg)
                /\ Reported =>
                      \E a \in DOMAIN output_data :
                          /\ output_data[a].video_id = id
                          /\ output_data[a].error = NotFoundMsg
                          /\ output_data[a].title = NA
                          /\ output_data[a].view_count = Zero

C5_Witness ==
    /\ pc = "done"
    /\ outputFile.written
    /\ Len(requests) = 2
    /\ Succeeded(1) /\ Succeeded(2)
    /\ \E id \in Range(requests[1].ids) :
          /\ ~ReturnedBy(1, id)
          /\ 2 \in Asked(id)
          /\ ~ReturnedBy(2, id)
          /\ \E a \in DOMAIN outputFile.rows :
                /\ outputFile.rows[a].video_id = id
                /\ outputFile.rows[a].error = NotFoundMsg
    /\ \E id \in Range(requests[1].ids) : ReturnedBy(1, id)

\* C6 as claimed: every input row whose URL yields an identifier has its own
\* row in the report, with its nickname and url, so the report has as many
\* rows as input rows yielded an identifier.
C6_OneReportRowPerInputRow ==
    Reported =>
        /\ Len(output_data) = Len(video_ids)
        /\ \A k \in DOMAIN videos :
              Truthy(extract_video_id(videos[k].url)) =>
                  \E a \in DOMAIN output_data :
                      /\ output_data[a].video_id = extract_video_id(videos[k].url)
                      /\ output_data[a].nickname = videos[k].nickname
                      /\ output_data[a].url = videos[k].url

\* C7: the report has one row per entry of the outcome mapping, the
\* video_id of its rows ranges over the keys of the mapping, and the rows
\* are in non-decreasing order of the upload_date string, "N/A" included.
C7_ReportSortedByUploadDate ==
    Reported =>
        /\ Len(output_data) = Len(results.keys)
        /\ {output_data[a].video_id : a \in DOMAIN output_data} = Range(results.keys)
        /\ \A a \in DOMAIN output_data :
              output_data[a].upload_date = results.val[output_data[a].video_id].upload_date
        /\ \A a \in 1..(Len(output_data) - 1) :
              ~StrLess(output_data[a + 1].upload_date, output_data[a].upload_date)

C7_Witness ==
    /\ Reported
    /\ Len(output_data) > batch_size
    /\ \E a \in DOMAIN output_data : output_data[a].upload_date = NA
    /\ \E a \in DOMAIN output_data : output_data[a].upload_date # NA
    /\ \E a \in 1..(Len(results.keys) - 1) :
          StrLess(results.val[results.keys[a + 1]].upload_date,
                  results.val[results.keys[a]].upload_date)

KeyUnusable == apiKeyFile = None \/ StripChars(apiKeyFile, Whitespace) = <<>>

NoRowYieldsId ==
    \A k \in DOMAIN inputCsv :
        Truthy(RowLink(inputCsv[k])) =>
            ~Truthy(extract_video_id(StripChars(RowLink(inputCsv[k]), Whitespace)))

\* C8: in a run whose key file is missing or blank, and in a run where no
\* input row yields an identifier, no request is ever issued, no output is
\* ever written, and the fetch and write steps are never reached.
C8_NoFetchWithoutKeyOrIds ==
    (requests # <<>> \/ outputFile.written \/ pc \in {"fetch", "write"}) =>
        (~KeyUnusable /\ ~NoRowYieldsId)

C8_Witness ==
    /\ pc = "done"
    /\ apiKeyFile = <<" ", "\n">>
    /\ Len(inputCsv) > batch_size
    /\ ~NoRowYieldsId
    /\ requests = <<>>
    /\ ~outputFile.written

\* C9 as claimed: a URL whose host is not youtu.be and that holds no
\* /shorts/ segment but has the form .../watch?v=<id>&... yields <id>.
WatchId(u) ==
    LET w     == <<"/","w","a","t","c","h","?","v","=">>
        at    == Least({k \in 1..Len(u) : StartsAt(w, u, k)})
        from  == at + Len(w)
        amp   == FindChar(u, {"&", "#"}, from)
    IN  Slice(u, from, IF amp = 0 THEN Len(u) ELSE amp - 1)

C9_WatchUrlYieldsV ==
    ( /\ pc = "return"
      /\ StartsAt(S_https, url, 1)
      /\ UrlNetloc(url) # S_yb
      /\ ~Contains(S_shorts, url)
      /\ Contains(S_watch \o <<"?","v","=">>, url)
      /\ WatchId(url) # <<>> )
    => video_id = WatchId(url)

\* C10 as claimed: the mapping holds, for an identifier that occurs more
\* than once, the outcome of the batch of its last occurrence, be it a
\* success, a not-found or the error of a failed request.
C10_LastOccurrenceWins ==
    Fetched =>
        \A id \in Range(video_ids) :
            Cardinality({k \in DOMAIN video_ids : video_ids[k] = id}) > 1 =>
                results.val[id] = ClassifiedBy(Greatest(Asked(id)), id)

Count(seq, x) == Cardinality({k \in DOMAIN seq : seq[k] = x})

\* C10, amended: an identifier is asked for once per occurrence, and the
\* mapping holds the outcome of the last batch with the identifier whose
\* request succeeded; when every request for it failed, the error of the
\* first of them.
C10_LastSuccessWins ==
    /\ \A id \in Range(results.keys) :
          LET ok == {q \in Asked(id) : Succeeded(q)}
          IN  results.val[id] =
                  IF ok # {} THEN ClassifiedBy(Greatest(ok), id)
                  ELSE ClassifiedBy(Least(Asked(id)), id)
    /\ Fetched =>
          \A id \in Range(video_ids) :
              Count(Concat([q \in DOMAIN requests |-> requests[q].ids]), id)
                  = Count(video_ids, id)

C10_Witness ==
    /\ Fetched
    /\ \E id \in Range(video_ids) :
          /\ Cardinality(Asked(id)) = 2
          /\ Failed(Greatest(Asked(id)))
          /\ ReturnedBy(Least(Asked(id)), id)
          /\ results.val[id].error = None

====
